---------------------------- MODULE Spec2Model ----------------------------
(***************************************************************************)
(* A model of embedded_wiegand::WiegandInterface                           *)
(* (include/wiegand_interface.hpp) and of the Pin it drives                *)
(* (include/pins.hpp).                                                     *)
(*                                                                         *)
(* Unsigned machine words are modelled as bit vectors: a word is the set   *)
(* of the positions of its 1 bits, so a uint32_t is a subset of 0..31 and  *)
(* a uint64_t a subset of 0..63.  Every conversion and shift states the    *)
(* width it is computed in, so bits that the C++ arithmetic drops are      *)
(* dropped here too.                                                       *)
(***************************************************************************)
EXTENDS Integers, Sequences, FiniteSets

(***************************************************************************)
(* Bounds of the model.                                                    *)
(***************************************************************************)
\* size_t is modelled SizeBits wide (32 on the mbed targets the Pin is
\* written for).  All size_t arithmetic is taken modulo 2^SizeBits.
SizeBits == 8

\* send() is called with the bit counts of BitCounts: the counts from 1 up to
\* SmallBitCount, the default of 26, and the counts next to the word
\* boundaries 32 and 64.
SmallBitCount == 3

(***************************************************************************)
(* Bit vectors.                                                            *)
(***************************************************************************)
RECURSIVE Pow2(_)
Pow2(n) == IF n = 0 THEN 1 ELSE 2 * Pow2(n - 1)

SizeMod == Pow2(SizeBits)

\* The bits of a w-bit unsigned type.
Bits(w) == 0 .. (w - 1)

\* Conversion to a w-bit unsigned type (static_cast / implicit conversion).
Trunc(x, w) == x \cap Bits(w)

\* x >> k
Shr(x, k) == {i - k : i \in {j \in x : j >= k}}

\* x << k computed in a w-bit type.
Shl(x, k, w) == {i + k : i \in x} \cap Bits(w)

\* x & y, x | y, x ^ y
And(x, y) == x \cap y
Or(x, y) == x \cup y
Xor(x, y) == (x \ y) \cup (y \ x)

Zero == {}
One == {0}

(***************************************************************************)
(* pins.hpp: a Pin is a DigitalInOut: a direction and the written level.   *)
(***************************************************************************)
\* Pin::Pin : pin_{name, PIN_INPUT, OpenDrainNoPull, 1}
PinInit == [mode |-> "input", level |-> 1]

\* Pin::input
PinInput(p) == [p EXCEPT !.mode = "input"]

\* Pin::output : pin_.output(); pin_.mode(OpenDrainNoPull); pin_.write(1)
PinOutput(p) == [p EXCEPT !.mode = "output", !.level = 1]

\* Pin::set_low : pin_.write(0)
PinSetLow(p) == [p EXCEPT !.level = 0]

\* Pin::set_high : pin_.write(1)
PinSetHigh(p) == [p EXCEPT !.level = 1]

\* One call on a Pin.
PinCall(p, op) ==
    CASE op = "input" -> PinInput(p)
      [] op = "output" -> PinOutput(p)
      [] op = "set_low" -> PinSetLow(p)
      [] op = "set_high" -> PinSetHigh(p)

\* The pin after a sequence of calls <<which pin, operation>>, of which it
\* takes those made on pin `which`.
RECURSIVE PinAfter(_, _, _)
PinAfter(p, which, ops) ==
    IF ops = <<>> THEN p
    ELSE PinAfter(IF Head(ops)[1] = which THEN PinCall(p, Head(ops)[2]) ELSE p,
                  which, Tail(ops))

(***************************************************************************)
(* wiegand_interface.hpp: the transmitter.                                 *)
(***************************************************************************)
\* enum State
IDLE == "IDLE"
RECEIVING == "RECEIVING"
SENDING == "SENDING"
State == {IDLE, RECEIVING, SENDING}

VARIABLES
    state_,      \* State state_
    d0_pin_,     \* Pin& d0_pin_
    d1_pin_,     \* Pin& d1_pin_
    code_,       \* uint32_t code_
    code_ext_,   \* uint32_t code_ext_
    mask_bit_,   \* uint32_t mask_bit_
    send_pos_,   \* size_t send_pos_
    send_bits_,  \* size_t send_bits_
    \* Observation of the run (history variables, written by no code):
    call,        \* the last call made: its operation and what it returned
    job,         \* the arguments of the last accepted send(), or NoJob
    nticks,      \* tick() calls that ran in state SENDING since that send()
    pulses,      \* the lines driven low since that send(), in order
    ops,         \* the Pin calls made by the last call
    enc,         \* the last call of the static encoder functions
    sending      \* the send() that is between two of its statements (with
                 \* the state it was called in and the tick() calls that have
                 \* interrupted it), or NoSend

fields == <<state_, d0_pin_, d1_pin_, code_, code_ext_, mask_bit_, send_pos_, send_bits_>>
history == <<call, job, nticks, pulses, ops>>
vars == <<fields, history, enc, sending>>

NoJob == [code |-> {}, width |-> 0, bits |-> 0, live |-> FALSE]
NoCall == [op |-> "none", ret |-> FALSE, phase |-> 0]
NoEnc == [fn |-> "none"]
NoSend == [pc |-> "none", code |-> {}, width |-> 0, bits |-> 0, from |-> IDLE,
           ticks |-> 0]

\* The types a code is passed in: uint32_t and uint64_t, by their width.
CodeWidths == {32, 64}

\* The codes the model sends, of a type `w` bits wide.
Codes(w) ==
    { {}, Bits(w),
      {i \in Bits(w) : i % 2 = 0},
      {i \in Bits(w) : i % 3 = 0} }

\* static constexpr size_t SEND_BITS
SEND_BITS == 26

\* The widest message the two 32-bit words hold.
MaxBits == 64

BitCounts ==
    {n \in 1 .. MaxBits :
        n <= SmallBitCount \/ n = SEND_BITS \/ n \in 31 .. 34 \/ n >= 63}

\* Bit counts send() accepts although no message has them: 0, and counts
\* beyond MaxBits.
AnyCounts == BitCounts \cup {0, MaxBits + 1}

\* 1 << cnt, computed in int and converted to uint32_t, for a size_t count.
\* Counts 0..31 are defined (1 << 31 is the value 0x80000000 once converted).
\* A count of 32 or more is undefined behaviour: the barrel shifters of the
\* targets give 0 (count taken as is) or 1 << (cnt % 32) (count masked).
ShiftOne(cnt) ==
    IF cnt \in 0 .. 31 THEN { {cnt} } ELSE { {}, {cnt % 32} }

SendHighWord_of_any_type(code, w) ==
    IF w <= 32 THEN Trunc(code, 32) ELSE Trunc(Shr(code, 32), 32)

SendHighWord_unshifted(code, w) == IF w <= 32 THEN Zero ELSE Trunc(code, 32)

\* send, line 97: the high word of a wide code.
SendHighWord(code, w) == IF w <= 32 THEN Zero ELSE Trunc(Shr(code, 32), 32)

\* send, line 98 and line 101: static_cast<uint32_t>(code).
SendLowWord(code) == Trunc(code, 32)

SendMaskShift_unsplit(send_bits) == (send_bits - 1) % SizeMod

\* send, lines 99 and 102: the shift count of the initial mask.
SendMaskShift(send_bits) ==
    IF send_bits > 32 THEN (send_bits - 1 - 32) % SizeMod
    ELSE (send_bits - 1) % SizeMod

write_bit_swapped(val) ==
    IF val = Zero THEN << <<"d1", "set_low">> >> ELSE << <<"d0", "set_low">> >>

\* write_bit
write_bit(val) ==
    IF val = Zero THEN << <<"d0", "set_low">> >> ELSE << <<"d1", "set_low">> >>

\* The lines driven low by a sequence of Pin calls, in order.
RECURSIVE LowPulses(_)
LowPulses(s) ==
    IF s = <<>> THEN <<>>
    ELSE (IF Head(s)[2] = "set_low"
          THEN << (IF Head(s)[1] = "d0" THEN 0 ELSE 1) >> ELSE <<>>)
         \o LowPulses(Tail(s))

Init ==
    /\ state_ = IDLE
    /\ d0_pin_ = PinInit
    /\ d1_pin_ = PinInit
    /\ code_ = Zero
    /\ code_ext_ = Zero
    /\ mask_bit_ = One
    /\ send_pos_ = 0
    /\ send_bits_ = SEND_BITS
    /\ call = NoCall
    /\ job = NoJob
    /\ nticks = 0
    /\ pulses = <<>>
    /\ ops = <<>>
    /\ enc = NoEnc
    /\ sending = NoSend

\* send(T code, size_t send_bits), T being w bits wide.
\* Line 92 tests `state`, not the member state_ (declared at line 161): the
\* class has no member of that name, so whatever the name is bound to where
\* the header is compiled, send() and tick() never write it, and its value at
\* a call is independent of state_.  The outcome `busy` of the test
\* state != IDLE is therefore chosen freely at each call.
send(code, w, send_bits) ==
    \E busy \in BOOLEAN :
        IF busy
        THEN /\ call' = [op |-> "send", ret |-> FALSE, phase |-> 0]
             /\ ops' = <<>>
             /\ UNCHANGED <<fields, job, nticks, pulses, enc, sending>>
        ELSE /\ \E m \in ShiftOne(SendMaskShift(send_bits)) : mask_bit_' = m
             /\ IF send_bits > 32
                THEN /\ code_' = SendHighWord(code, w)
                     /\ code_ext_' = SendLowWord(code)
                ELSE /\ code_' = SendLowWord(code)
                     /\ code_ext_' = code_ext_
             /\ send_pos_' = 0
             /\ send_bits_' = send_bits
             /\ state_' = SENDING
             /\ call' = [op |-> "send", ret |-> TRUE, phase |-> 0]
             /\ job' = [code |-> code, width |-> w, bits |-> send_bits, live |-> TRUE]
             /\ nticks' = 0
             /\ pulses' = <<>>
             /\ ops' = <<>>
             /\ UNCHANGED <<d0_pin_, d1_pin_, enc, sending>>

\* A tick() that runs while a send() is between two statements interrupts it.
Interrupted(s) == IF s.pc = "none" THEN s ELSE [s EXCEPT !.ticks = @ + 1]

TickRuns_always(st) == TRUE

\* tick, lines 119-121: tick returns at once unless state_ == SENDING
TickRuns(st) == st = SENDING

TickState_two_phase(pos) == pos % 2

\* tick, line 126
TickState(pos) == pos % 4

TickOutputOps_never(pos) == <<>>

\* tick, lines 122-125
TickOutputOps(pos) ==
    IF pos = 0 THEN << <<"d0", "output">>, <<"d1", "output">> >> ELSE <<>>

TickClearOps_d0_only == << <<"d0", "set_high">> >>

\* tick, lines 134-135
TickClearOps == << <<"d0", "set_high">>, <<"d1", "set_high">> >>

\* tick, lines 137-138
TickInputOps == << <<"d0", "input">>, <<"d1", "input">> >>

TickShiftMask_by_two(mask) == Shr(mask, 2)

\* tick, line 130
TickShiftMask(mask) == Shr(mask, 1)

\* tick, line 136: --send_bits_ on a size_t
TickDecrement(bits) == (bits - 1) % SizeMod

\* tick, line 136: the test --send_bits_ == 0, on the value before it
TickLastBit_post_decrement(bits) == bits = 0

TickLastBit(bits) == TickDecrement(bits) = 0

TickAdvance_forgotten(pos) == pos

\* tick, line 150: ++send_pos_ on a size_t
TickAdvance(pos) == (pos + 1) % SizeMod

\* The history of a job is kept for its first TickCap ticks: no job runs
\* longer, the longest being the 2^SizeBits bits of a bit count of 0.
TickCap == 4 * SizeMod + 4

TopBit_bit30 == {30}

\* tick, line 147: 1 << 31
TopBit == {31}

tick ==
    IF ~TickRuns(state_)
    THEN /\ call' = [op |-> "tick", ret |-> FALSE, phase |-> 0]
         /\ ops' = <<>>
         /\ sending' = Interrupted(sending)
         /\ UNCHANGED <<fields, job, nticks, pulses, enc>>
    ELSE
      LET tick_state == TickState(send_pos_)
          pre == TickOutputOps(send_pos_)
          bits1 == IF tick_state = 1 THEN TickDecrement(send_bits_) ELSE send_bits_
          done == tick_state = 1 /\ TickLastBit(send_bits_)
          made == pre
                  \o (IF tick_state = 0 THEN write_bit(And(code_, mask_bit_)) ELSE <<>>)
                  \o (IF tick_state = 1 THEN TickClearOps ELSE <<>>)
                  \o (IF done THEN TickInputOps ELSE <<>>)
          mask1 == IF tick_state = 0 THEN TickShiftMask(mask_bit_) ELSE mask_bit_
      IN  /\ d0_pin_' = PinAfter(d0_pin_, "d0", made)
          /\ d1_pin_' = PinAfter(d1_pin_, "d1", made)
          /\ send_bits_' = bits1
          /\ IF done
             THEN /\ state_' = IDLE
                  /\ UNCHANGED <<mask_bit_, code_, send_pos_>>
             ELSE /\ state_' = state_
                  /\ IF mask1 = Zero
                     THEN mask_bit_' = TopBit /\ code_' = code_ext_
                     ELSE mask_bit_' = mask1 /\ code_' = code_
                  /\ send_pos_' = TickAdvance(send_pos_)
          /\ call' = [op |-> "tick", ret |-> TRUE, phase |-> tick_state]
          /\ ops' = made
          /\ nticks' = IF nticks < TickCap THEN nticks + 1 ELSE nticks
          /\ pulses' = IF nticks < TickCap THEN pulses \o LowPulses(made) ELSE pulses
          /\ sending' = Interrupted(sending)
          /\ UNCHANGED <<code_ext_, job, enc>>

\* The calls a program makes: send() with a bit count of `counts`, and tick().
NextOver(counts) ==
    \/ \E w \in CodeWidths : \E code \in Codes(w) : \E n \in counts : send(code, w, n)
    \/ tick

Next == NextOver(BitCounts)

Spec == Init /\ [][Next]_vars

\* A caller that starts a job only when the transmitter is idle, with any bit
\* count send() accepts, and a timer that keeps calling tick().
NextDrain ==
    \/ /\ state_ = IDLE
       /\ \E w \in CodeWidths : \E code \in Codes(w) : \E n \in AnyCounts : send(code, w, n)
    \/ tick

SpecDrain == Init /\ [][NextDrain]_vars /\ WF_vars(tick)

(***************************************************************************)
(* send() called from the foreground, statement by statement in program    *)
(* order, with tick() as an interrupt that runs whole between any two of   *)
(* them.                                                                   *)
(***************************************************************************)
\* A send() is a handful of assignments and tick() runs at a fixed interval:
\* at most IrqTicks calls of tick() fall inside one send().
IrqTicks == 2

\* The codes and bit counts of the foreground send().
IrqCodes(w) == { {i \in Bits(w) : i % 2 = 0} }
IrqCounts == {n \in BitCounts : n <= SmallBitCount - 1 \/ n = 33}

\* send, lines 96-106: the statement that follows the one at `pc`, by the
\* member it writes.
SendAfter(pc, send_bits) ==
    CASE pc = "code_" -> IF send_bits > 32 THEN "code_ext_" ELSE "mask_bit_"
      [] pc = "code_ext_" -> "mask_bit_"
      [] pc = "mask_bit_" -> "send_pos_"
      [] pc = "send_pos_" -> "send_bits_"
      [] pc = "send_bits_" -> "state_"
      [] pc = "state_" -> "none"

\* send, line 92: the call and its test.  A send() that is not rejected goes
\* on to its first assignment, that of code_.
SendEnter(code, w, send_bits) ==
    /\ sending = NoSend
    /\ \E busy \in BOOLEAN :
         IF busy
         THEN /\ call' = [op |-> "send", ret |-> FALSE, phase |-> 0]
              /\ ops' = <<>>
              /\ UNCHANGED <<fields, job, nticks, pulses, enc, sending>>
         ELSE /\ sending' = [pc |-> "code_", code |-> code, width |-> w,
                             bits |-> send_bits, from |-> state_, ticks |-> 0]
              /\ UNCHANGED <<fields, history, enc>>

\* send, lines 97-106: one assignment.  The last one, state_ = SENDING, is
\* followed by the return of true (line 107).
SendWrite ==
    /\ sending # NoSend
    /\ LET pc == sending.pc
           n == sending.bits
       IN  /\ code_' = IF pc # "code_" THEN code_
                       ELSE IF n > 32 THEN SendHighWord(sending.code, sending.width)
                       ELSE SendLowWord(sending.code)
           /\ code_ext_' = IF pc = "code_ext_" THEN SendLowWord(sending.code)
                           ELSE code_ext_
           /\ IF pc = "mask_bit_"
              THEN \E m \in ShiftOne(SendMaskShift(n)) : mask_bit_' = m
              ELSE mask_bit_' = mask_bit_
           /\ send_pos_' = IF pc = "send_pos_" THEN 0 ELSE send_pos_
           /\ send_bits_' = IF pc = "send_bits_" THEN n ELSE send_bits_
           /\ IF pc = "state_"
              THEN /\ state_' = SENDING
                   /\ sending' = NoSend
                   /\ call' = [op |-> "send", ret |-> TRUE, phase |-> 0]
                   /\ job' = [code |-> sending.code, width |-> sending.width,
                              bits |-> n, live |-> TRUE]
                   /\ nticks' = 0
                   /\ pulses' = <<>>
                   /\ ops' = <<>>
              ELSE /\ sending' = [sending EXCEPT !.pc = SendAfter(pc, n)]
                   /\ UNCHANGED <<state_, history>>
           /\ UNCHANGED <<d0_pin_, d1_pin_, enc>>

NextIrq ==
    \/ \E w \in CodeWidths : \E code \in IrqCodes(w) : \E n \in IrqCounts :
          SendEnter(code, w, n)
    \/ SendWrite
    \/ sending.ticks < IrqTicks /\ tick

SpecIrq == Init /\ [][NextIrq]_vars

(***************************************************************************)
(* wiegand_interface.hpp: the static encoder functions.                    *)
(***************************************************************************)
\* using R = std::conditional<BITS <= 32, uint32_t, uint64_t>::type, by its
\* width.
ResultWidth(BITS) == IF BITS <= 32 THEN 32 ELSE 64

AddParityShifted_unshifted(BITS, w, code) == Trunc(code, ResultWidth(BITS))

\* add_parity, line 68: code << 1 is computed in the type of code, which is
\* w bits wide, and the result converted to R.
AddParityShifted(BITS, w, code) == Trunc(Shl(code, 1, w), ResultWidth(BITS))

\* add_parity, lines 71 and 75: the number of turns of each loop.
AddParityHalf(BITS) == BITS \div 2 - 1

\* add_parity, lines 71-74 and 75-78: `turns` turns of
\*     parity ^= code & 1; code >>= 1;
\* The value is the parity and the code left over.  (The test between two
\* turns is true of every value: it has both values computed before the next
\* turn starts.)
RECURSIVE AddParityLoop(_, _, _)
AddParityLoop(code, parity, turns) ==
    IF turns = 0 THEN [parity |-> parity, code |-> code]
    ELSE LET parity1 == Xor(parity, And(code, One))
             code1 == Shr(code, 1)
         IN  IF parity1 \subseteq One /\ code1 \subseteq code1
             THEN AddParityLoop(code1, parity1, turns - 1)
             ELSE AddParityLoop(code1, parity1, turns - 1)

\* add_parity<BITS>(T code), T being w bits wide.
add_parity(BITS, w, code) ==
    LET code_shifted == AddParityShifted(BITS, w, code)
        odd == AddParityLoop(code, One, AddParityHalf(BITS))
        even == AddParityLoop(odd.code, Zero, AddParityHalf(BITS))
    IN  Or(Or(code_shifted, Shl(even.parity, BITS - 1, ResultWidth(BITS))),
           odd.parity)

CodeFacilityShift_by_eight(BITS) == BITS - 8

\* code, line 51: the place of the facility code.
CodeFacilityShift(BITS) == BITS - 10

\* code, line 51: const R code = (static_cast<R>(facility) << (BITS - 10)) | id
\* The | is computed in the wider of R and the type of id, then converted to R.
CodeRaw(BITS, facility, id) ==
    Trunc(Or(Shl(facility, CodeFacilityShift(BITS), ResultWidth(BITS)), id),
          ResultWidth(BITS))

\* code<BITS>(uint8_t facility, T id): add_parity is called on an R.
Code(BITS, facility, id) ==
    add_parity(BITS, ResultWidth(BITS), CodeRaw(BITS, facility, id))

\* The message widths the encoder is called with: BITS is even (line 65).
EncBits == {2, 4, 10, 12, 26, 32, 34, 36, 62, 64}

\* The values passed in a type of w bits: no bit, one bit, two bits set, and
\* all bits set up to each position.
Values(w) ==
    {{a, b} : a \in Bits(w), b \in Bits(w)} \cup {Bits(k) : k \in 0 .. w}

\* The calls of add_parity.
AddParityCalls ==
    {[fn |-> "add_parity", BITS |-> b, width |-> w, code |-> c,
      facility |-> {}, done |-> FALSE, result |-> {}] :
        b \in EncBits, w \in CodeWidths, c \in Values(64)}

\* The ids passed to code<BITS>: no bit, the lowest and the highest bit of the
\* field of BITS-10 bits, every other bit of it, and all of it.
Ids(BITS) ==
    { {}, Bits(BITS - 10), Bits(1) \cap Bits(BITS - 10),
      Bits(BITS - 10) \ Bits(BITS - 11),
      {i \in Bits(BITS - 10) : i % 2 = 1} }

\* The calls of code: BITS of 10 and more have room for the facility code.
CodeCalls ==
    UNION {
      {[fn |-> "code", BITS |-> b, width |-> w, code |-> c,
        facility |-> f, done |-> FALSE, result |-> {}] :
          w \in CodeWidths, c \in Ids(b), f \in SUBSET Bits(8)} :
      b \in {x \in EncBits : x >= 10} }

\* An encoder call is well typed: its argument fits the type it is passed in.
EncCalls == {c \in AddParityCalls \cup CodeCalls : c.code \subseteq Bits(c.width)}

InitEnc ==
    /\ state_ = IDLE
    /\ d0_pin_ = PinInit
    /\ d1_pin_ = PinInit
    /\ code_ = Zero
    /\ code_ext_ = Zero
    /\ mask_bit_ = One
    /\ send_pos_ = 0
    /\ send_bits_ = SEND_BITS
    /\ call = NoCall
    /\ job = NoJob
    /\ nticks = 0
    /\ pulses = <<>>
    /\ ops = <<>>
    /\ enc \in EncCalls
    /\ sending = NoSend

\* add_parity returns.
AddParityReturn ==
    /\ enc.fn = "add_parity" /\ ~enc.done
    /\ enc' = [enc EXCEPT !.done = TRUE,
                          !.result = add_parity(enc.BITS, enc.width, enc.code)]
    /\ UNCHANGED <<fields, history, sending>>

\* code returns.
CodeReturn ==
    /\ enc.fn = "code" /\ ~enc.done
    /\ enc' = [enc EXCEPT !.done = TRUE,
                          !.result = Code(enc.BITS, enc.facility, enc.code)]
    /\ UNCHANGED <<fields, history, sending>>

NextEnc == AddParityReturn \/ CodeReturn

SpecEnc == InitEnc /\ [][NextEnc]_vars

(***************************************************************************)
(* What a job is expected to put on the lines.                             *)
(***************************************************************************)
Low(p) == p.level = 0

\* The line that carries bit i of the code: D1 for a 1, D0 for a 0.
LineOf(code, i) == IF i \in code THEN 1 ELSE 0

\* The pulses of a message of n bits, most significant bit first: pulse k
\* (counted from 0) carries bit n-1-k, so the k-th element (counted from 1)
\* carries bit n-k.
Expected(code, n) == [k \in 1 .. n |-> LineOf(code, n - k)]

IsPrefix(s, t) == Len(s) <= Len(t) /\ \A k \in 1 .. Len(s) : s[k] = t[k]

Range(s) == {s[k] : k \in 1 .. Len(s)}

\* The last call was a tick() that ran in state SENDING, in phase ph.
JobTick(ph) == call.op = "tick" /\ call.ret /\ call.phase = ph

(***************************************************************************)
(* C1: send() called while the transmitter is SENDING returns false and    *)
(* changes nothing: no member and neither line is changed.                 *)
(***************************************************************************)
C1_BusySendRejected ==
    [][(state_ = SENDING /\ call'.op = "send")
          => (call'.ret = FALSE /\ UNCHANGED fields)]_vars

(***************************************************************************)
(* C2: a job of 1 <= n <= 32 bits produces exactly n low pulses, the k-th  *)
(* (from 0) on D1 if bit n-1-k of the code is 1 and on D0 if it is 0: the  *)
(* pulses made so far are a prefix of that sequence, and all of it once    *)
(* the job has returned the transmitter to IDLE.                           *)
(***************************************************************************)
C2_NarrowJobPulses ==
    (job.live /\ job.bits \in 1 .. 32)
        => /\ IsPrefix(pulses, Expected(job.code, job.bits))
           /\ (state_ = IDLE => pulses = Expected(job.code, job.bits))

C2_Witness ==
    /\ job.live /\ job.bits = 32 /\ state_ = IDLE
    /\ Len(pulses) = 32 /\ Range(pulses) = {0, 1}

(***************************************************************************)
(* C3: a job of 32 < n <= 64 bits of a 64-bit code produces exactly n      *)
(* pulses, the k-th carrying bit n-1-k; the first n-32 are taken from the  *)
(* high word, whose mask then runs out, and the 32 that follow from the    *)
(* extension word, from its bit 31 down to its bit 0.                      *)
(***************************************************************************)
C3_WideJobPulses ==
    (job.live /\ job.width = 64 /\ job.bits \in 33 .. 64)
        => /\ IsPrefix(pulses, Expected(job.code, job.bits))
           /\ (state_ = IDLE => pulses = Expected(job.code, job.bits))
           /\ code_ext_ = Trunc(job.code, 32)
           /\ (state_ = SENDING =>
                 IF Len(pulses) < job.bits - 32
                 THEN /\ code_ = Shr(job.code, 32)
                      /\ mask_bit_ = {job.bits - 33 - Len(pulses)}
                 ELSE /\ code_ = code_ext_
                      /\ mask_bit_ = {(63 - job.bits - Len(pulses) + job.bits * 2) % 32})

C3_Witness ==
    /\ job.live /\ job.width = 64 /\ job.bits = 34 /\ state_ = SENDING
    /\ pulses = <<1, 0, 0>>
    /\ code_ = code_ext_ /\ mask_bit_ = {30}

(***************************************************************************)
(* C4: after an accepted send(code, n), 1 <= n <= 64, the state is SENDING *)
(* after each of the first 4(n-1)+1 tick() calls and IDLE after call       *)
(* number 4(n-1)+2, the phase-1 tick of the last bit.                      *)
(***************************************************************************)
C4_JobLength ==
    (job.live /\ job.bits \in 1 .. 64)
        => /\ state_ \in {SENDING, IDLE}
           /\ (state_ = SENDING => nticks <= 4 * (job.bits - 1) + 1)
           /\ (state_ = IDLE => nticks = 4 * (job.bits - 1) + 2)
           /\ (JobTick(1) /\ state_ = IDLE => send_bits_ = 0)

C4_Witness ==
    /\ job.live /\ job.bits = 64 /\ state_ = IDLE /\ nticks = 254

(***************************************************************************)
(* C5: D0 and D1 are never low at the same time.                           *)
(***************************************************************************)
C5_NeverBothLow == ~(Low(d0_pin_) /\ Low(d1_pin_))

C5_Witness ==
    /\ Low(d1_pin_) /\ ~Low(d0_pin_)
    /\ Len(pulses) >= 3 /\ pulses[Len(pulses) - 1] = 0

(***************************************************************************)
(* C6: every bit follows the 4-phase cycle keyed on send_pos_ mod 4: the   *)
(* phase-0 tick drives exactly one line low, the phase-1 tick releases     *)
(* both lines, the phase-2 and phase-3 ticks make no Pin call; so a line   *)
(* is low after a tick() exactly when that tick was a phase-0 tick (every  *)
(* pulse lasts one tick) and the pulses of a job start at its ticks        *)
(* 1, 5, 9, ... (4 ticks apart).                                           *)
(***************************************************************************)
C6_FourPhaseCycle ==
    /\ JobTick(0) => /\ Len(LowPulses(ops)) = 1
                     /\ Low(d0_pin_) # Low(d1_pin_)
                     /\ nticks % 4 = 1
    /\ JobTick(1) => /\ TickClearOps = SubSeq(ops, 1, 2)
                     /\ ~Low(d0_pin_) /\ ~Low(d1_pin_)
                     /\ nticks % 4 = 2
    /\ (JobTick(2) \/ JobTick(3)) => ops = <<>> /\ nticks % 4 \in {3, 0}
    /\ (call.op = "tick" /\ call.ret) =>
           /\ call.phase = (nticks - 1) % 4
           /\ state_ = SENDING => send_pos_ % 4 = nticks % 4
    /\ call.op = "tick" => ((Low(d0_pin_) \/ Low(d1_pin_)) <=> JobTick(0))
    /\ job.live => Len(pulses) = (nticks + 3) \div 4

C6_Witness ==
    /\ JobTick(3) /\ nticks = 8 /\ Len(pulses) = 2 /\ state_ = SENDING

(***************************************************************************)
(* C7: every accepted job, whatever its bit count, is brought back to IDLE *)
(* by repeated tick() calls.                                               *)
(***************************************************************************)
C7_JobTerminates == (state_ = SENDING) ~> (state_ = IDLE)

C7_Witness ==
    /\ job.live /\ job.bits = 0 /\ state_ = IDLE
    /\ nticks = 4 * (SizeMod - 1) + 2

(***************************************************************************)
(* What the encoder is expected to return.                                 *)
(***************************************************************************)
\* The number of 1 bits of x among its bits lo..hi.
Ones(x, lo, hi) == Cardinality(x \cap (lo .. hi))

\* add_parity<BITS> has returned enc.result.
AddParityDone == enc.fn = "add_parity" /\ enc.done

\* code<BITS> has returned enc.result.
CodeDone == enc.fn = "code" /\ enc.done

(***************************************************************************)
(* C8: for a raw code that fits in BITS-2 bits, the result of add_parity   *)
(* has an odd number of 1 bits among its bits 0..BITS/2-1 and an even      *)
(* number among its bits BITS/2..BITS-1.                                   *)
(***************************************************************************)
C8_ParityGroups ==
    (AddParityDone /\ enc.code \subseteq Bits(enc.BITS - 2))
        => /\ Ones(enc.result, 0, enc.BITS \div 2 - 1) % 2 = 1
           /\ Ones(enc.result, enc.BITS \div 2, enc.BITS - 1) % 2 = 0

\* The same, for a code passed in a type at least as wide as the result.
C8_ParityGroupsOfWideEnoughCode ==
    (AddParityDone /\ enc.width >= ResultWidth(enc.BITS))
        => C8_ParityGroups

(***************************************************************************)
(* C9: code<BITS>(facility, id) is add_parity<BITS> of                     *)
(* (facility << (BITS-10)) | id: bits 1..BITS-10 of the result hold id and *)
(* bits BITS-9..BITS-2 hold facility.                                      *)
(***************************************************************************)
C9_CodeLayout ==
    CodeDone
        => /\ enc.result =
                add_parity(enc.BITS, 64,
                           {i + enc.BITS - 10 : i \in enc.facility} \cup enc.code)
           /\ {i - 1 : i \in enc.result \cap (1 .. enc.BITS - 10)} = enc.code
           /\ {i - (enc.BITS - 9) : i \in enc.result \cap (enc.BITS - 9 .. enc.BITS - 2)}
                 = enc.facility

C9_Witness ==
    /\ CodeDone /\ enc.BITS = 26 /\ enc.facility = {0, 2, 7} /\ enc.code = Bits(16)
    /\ enc.result = {25, 24, 19, 17} \cup (1 .. 16) \cup {0}

C11_IdleTickNoOp ==
    [][(state_ # SENDING /\ call'.op = "tick")
          => (UNCHANGED fields /\ ops' = <<>>)]_vars

\* tick() has been called after a job of 26 bits had completed, and has
\* returned at once.
C11_Witness ==
    /\ call.op = "tick" /\ ~call.ret /\ state_ = IDLE
    /\ job.live /\ job.bits = SEND_BITS /\ Len(pulses) = SEND_BITS
    /\ send_bits_ = 0 /\ d0_pin_.mode = "input"

(***************************************************************************)
(* The transmitter and the lines of a job of n bits after t of its ticks,  *)
(* in closed form.                                                         *)
(***************************************************************************)
\* The ticks a job of n bits takes.
JobTicks(n) == 4 * (n - 1) + 2

\* The phase-0 ticks (pulses) and the phase-1 ticks among the first t ticks.
PulsesAt(t) == (t + 3) \div 4
ClearsAt(t) == (t + 2) \div 4

\* The times the mask has run out within the first t ticks of a job of n
\* bits: when the high word of a wide job is done, and after the last bit.
CarriesAt(n, t) ==
    (IF n > 32 /\ PulsesAt(t) >= n - 32 THEN 1 ELSE 0)
        + (IF PulsesAt(t) = n THEN 1 ELSE 0)

\* The members state_, code_, mask_bit_, send_pos_ and send_bits_ after t ticks
\* of the job j, `ext` being the extension word.
TransmitterAt(j, t, ext) ==
    LET n == j.bits
        first == IF n > 32 THEN {i - 32 : i \in j.code \cap (32 .. 63)}
                 ELSE j.code \cap (0 .. 31)
    IN  << IF t = JobTicks(n) THEN IDLE ELSE SENDING,
           IF CarriesAt(n, t) = 0 THEN first ELSE ext,
           {(n - 1 - PulsesAt(t) + 32) % 32},
           IF t = JobTicks(n) THEN t - 1 ELSE t,
           n - ClearsAt(t) >>

\* The lines D0 and D1 after t >= 1 ticks of the job j.
LinesAt(j, t) ==
    LET n == j.bits
        mode == IF t = JobTicks(n) THEN "input" ELSE "output"
        bit == LineOf(j.code, n - PulsesAt(t))
        low(line) == t % 4 = 1 /\ bit = line
    IN  << [mode |-> mode, level |-> IF low(0) THEN 0 ELSE 1],
           [mode |-> mode, level |-> IF low(1) THEN 0 ELSE 1] >>

\* The last call was a send() that returned false, or a tick() that returned
\* at once.
NoOpCall(c) == c.op \in {"send", "tick"} /\ ~c.ret

(***************************************************************************)
(* C12: the transmitter and line state of a job is a function of the       *)
(* accepted (code, bitCount) and of the number of tick() calls that ran    *)
(* for it only: after t ticks of a job the members, the lines and the      *)
(* pulses made are those of the closed form, and a tick() called while     *)
(* idle or a send() that is rejected changes none of them.  (The extension *)
(* word of a job of at most 32 bits is the one it found: send() does not   *)
(* write it, and no pulse of the job is taken from it.)                    *)
(***************************************************************************)
C12_JobStateOfTicks ==
    /\ []((job.live /\ job.bits \in 1 .. MaxBits) =>
            /\ nticks <= JobTicks(job.bits)
            /\ <<state_, code_, mask_bit_, send_pos_, send_bits_>>
                  = TransmitterAt(job, nticks, code_ext_)
            /\ (job.bits > 32 => code_ext_ = job.code \cap (0 .. 31))
            /\ (nticks >= 1 => <<d0_pin_, d1_pin_>> = LinesAt(job, nticks))
            /\ pulses = SubSeq(Expected(job.code, job.bits), 1, PulsesAt(nticks)))
    /\ [][NoOpCall(call') => UNCHANGED <<fields, job, nticks, pulses>>]_vars

\* A job of 34 bits has made 7 ticks, with a rejected send() and nothing
\* else since the last of them: its second pulse is over and the high word
\* is done.
C12_Witness ==
    /\ job.live /\ job.bits = 34 /\ job.width = 64 /\ nticks = 7
    /\ call.op = "send" /\ ~call.ret
    /\ code_ = code_ext_ /\ mask_bit_ = TopBit /\ send_bits_ = 32
    /\ pulses = <<1, 0>>

(***************************************************************************)
(* C13: line mode follows the job: send() makes no Pin call and leaves     *)
(* both lines as they are; the first tick of a job calls output() on both  *)
(* lines and then pulses the first bit; the terminal tick calls set_high() *)
(* on both lines and then input() on both.  So a line is low only in       *)
(* output mode, both lines are in output mode from the first tick of a job *)
(* to its end, and when the state is IDLE both lines are in input mode and *)
(* not low.                                                                *)
(***************************************************************************)
C13_LineModeFollowsJob ==
    /\ [](/\ (call.op = "send" => ops = <<>>)
          /\ ((JobTick(0) /\ nticks = 1) =>
                 /\ Len(ops) = 3
                 /\ SubSeq(ops, 1, 2) = << <<"d0", "output">>, <<"d1", "output">> >>
                 /\ ops[3][2] = "set_low")
          /\ ((JobTick(1) /\ state_ = IDLE) =>
                 ops = << <<"d0", "set_high">>, <<"d1", "set_high">>,
                          <<"d0", "input">>, <<"d1", "input">> >>)
          /\ (\A p \in {d0_pin_, d1_pin_} : Low(p) => p.mode = "output")
          /\ ((state_ = SENDING /\ nticks >= 1) =>
                 \A p \in {d0_pin_, d1_pin_} : p.mode = "output")
          /\ (state_ = IDLE =>
                 \A p \in {d0_pin_, d1_pin_} : p.mode = "input" /\ ~Low(p)))
    /\ [][call'.op = "send" => UNCHANGED <<d0_pin_, d1_pin_>>]_vars

\* The terminal tick of a job of 3 bits has just released the lines.
C13_Witness ==
    /\ JobTick(1) /\ state_ = IDLE /\ job.bits = 3 /\ Len(pulses) = 3
    /\ Len(ops) = 4 /\ d0_pin_ = PinInit /\ d1_pin_ = PinInit

\* The pulses of n > 32 bits of a 32-bit code: n-32 zeros, then the code from
\* bit 31 down to bit 0.
ExpectedOfNarrowCode(code, n) ==
    [k \in 1 .. n - 32 |-> 0] \o [k \in 1 .. 32 |-> LineOf(code, 32 - k)]

(***************************************************************************)
(* C14: send(code, n) with n > 32 and a code of a 32-bit type sets the     *)
(* high word code_ to 0 and the extension word to code; the job pulses     *)
(* n-32 times D0 (the zero bits of the high word) and then the 32 bits of  *)
(* code from bit 31 down to bit 0, n pulses in all.                        *)
(***************************************************************************)
C14_NarrowCodeWideJob ==
    (job.live /\ job.width = 32 /\ job.bits \in 33 .. MaxBits)
        => /\ code_ext_ = job.code
           /\ (Len(pulses) < job.bits - 32 => code_ = Zero)
           /\ (call.op = "send" /\ call.ret => code_ = Zero /\ nticks = 0)
           /\ IsPrefix(pulses, ExpectedOfNarrowCode(job.code, job.bits))
           /\ (state_ = IDLE =>
                 /\ pulses = ExpectedOfNarrowCode(job.code, job.bits)
                 /\ Len(pulses) = job.bits)

\* A job of 34 bits of the 32-bit code 0x55555555 has completed.
C14_Witness ==
    /\ job.live /\ job.width = 32 /\ job.bits = 34 /\ state_ = IDLE
    /\ job.code = {i \in Bits(32) : i % 2 = 0}
    /\ SubSeq(pulses, 1, 4) = <<0, 0, 0, 1>> /\ Len(pulses) = 34

\* A step that takes the carry-over of tick (lines 146-149): the mask is set
\* to the top bit of a 32-bit word and the extension word becomes the active
\* word.
CarryOverStep ==
    /\ state_ = SENDING /\ call'.op = "tick"
    /\ mask_bit_ # {31} /\ mask_bit_' = {31}
    /\ code_' = code_ext_

\* A step that pulses bit number k (from 1) of the job in flight.
PulseStep(k) ==
    /\ state_ = SENDING /\ call'.op = "tick" /\ call'.phase = 0
    /\ Len(pulses) = k - 1 /\ Len(pulses') = k

(***************************************************************************)
(* C15 as stated: the carry-over step is taken only when the high word of  *)
(* a job of more than 32 bits is exhausted, that is by the tick that       *)
(* pulses bit number bitCount-32 of such a job, and in no job of at most   *)
(* 32 bits.                                                                *)
(***************************************************************************)
C15_CarryOnlyInWideJob ==
    [][CarryOverStep => (job.bits > 32 /\ PulseStep(job.bits - 32))]_vars

(***************************************************************************)
(* C15 as amended: the carry-over step is taken exactly by the ticks whose *)
(* shift leaves the mask 0: the tick that pulses the last bit of any job   *)
(* (once in a job of at most 32 bits), and also the tick that pulses bit   *)
(* number bitCount-32 of a job of more than 32 bits (twice in such a job). *)
(* The carry-over after the last bit is followed by no pulse.              *)
(***************************************************************************)
C15_CarryWhenMaskRunsOut ==
    [][job.bits \in 1 .. MaxBits =>
         /\ CarryOverStep <=>
               \/ PulseStep(job.bits)
               \/ job.bits > 32 /\ PulseStep(job.bits - 32)
         /\ PulseStep(job.bits) => send_bits_' = 1 /\ state_' = SENDING]_vars

\* A job of 26 bits has pulsed its last bit: the mask is back at the top bit
\* and the active word is the extension word, which is not the job's code.
C15_Witness ==
    /\ job.live /\ job.bits = SEND_BITS /\ state_ = SENDING
    /\ JobTick(0) /\ Len(pulses) = SEND_BITS
    /\ mask_bit_ = {31} /\ code_ = code_ext_ /\ code_ # Trunc(job.code, 32)

(***************************************************************************)
(* C16: for even BITS with 32 < BITS <= 64 and a raw code that fits in     *)
(* BITS-2 bits, add_parity<BITS>(code) keeps every payload bit: bit i+1 of *)
(* the result is bit i of code for all i in 0..BITS-3, whether code is     *)
(* passed as a 32-bit or as a 64-bit unsigned value.                       *)
(***************************************************************************)
C16_PayloadKept ==
    (AddParityDone /\ enc.BITS > 32 /\ enc.code \subseteq Bits(enc.BITS - 2))
        => \A i \in 0 .. enc.BITS - 3 : (i + 1 \in enc.result) <=> (i \in enc.code)

\* The same, for a code passed as a 64-bit value.
C16_PayloadKeptOfWideCode ==
    (AddParityDone /\ enc.width = 64) => C16_PayloadKept

\* The pulses of the job in flight are those of its own code and bit count.
C17_NextJobPulses ==
    (job.live /\ job.bits \in 1 .. MaxBits)
        => /\ IsPrefix(pulses, Expected(job.code, job.bits))
           /\ (state_ = IDLE => pulses = Expected(job.code, job.bits))

TickInsideSend == sending # NoSend /\ sending'.ticks = sending.ticks + 1

(***************************************************************************)
(* C18: with send() executed as its assignments in program order and       *)
(* tick() as an interrupt between any two of them, a tick() inside an      *)
(* accepted send() is a no-op and the job is unaffected: it changes no     *)
(* member and no line, and send() returns with the members of a fresh job, *)
(* because state_ = SENDING is the last assignment of send(); and the      *)
(* terminal tick() has made its last line operation when the state is      *)
(* IDLE.                                                                   *)
(***************************************************************************)
C18_TickInsideSendNoOp ==
    /\ [][TickInsideSend => UNCHANGED fields]_vars
    /\ []((call.op = "send" /\ call.ret /\ job.bits \in 1 .. MaxBits) =>
            <<state_, code_, mask_bit_, send_pos_, send_bits_>>
                = TransmitterAt(job, 0, code_ext_))
    /\ [](state_ = IDLE => d0_pin_.mode = "input" /\ d1_pin_.mode = "input")

\* The same, for a send() called while the state is IDLE.
C18_TickInsideSendFromIdle ==
    /\ [][(TickInsideSend /\ sending.from = IDLE) => UNCHANGED fields]_vars
    /\ [](sending.from = IDLE => (sending # NoSend => state_ = IDLE))
    /\ [](state_ = IDLE => d0_pin_.mode = "input" /\ d1_pin_.mode = "input")

(***************************************************************************)
(* C19: in every state reached by send() calls with 1 <= bitCount <= 64    *)
(* and tick() calls, mask_bit_ is a 32-bit value with exactly one bit set, *)
(* so a phase-0 tick selects exactly one bit of the active word; and while *)
(* the state is SENDING, send_bits_ = bitCount - (send_pos_ + 2) div 4,    *)
(* which is at least 1.                                                    *)
(***************************************************************************)
C19_MaskAndCounter ==
    /\ mask_bit_ \subseteq Bits(32) /\ Cardinality(mask_bit_) = 1
    /\ And(code_, mask_bit_) \in {Zero, mask_bit_}
    /\ state_ = SENDING =>
          /\ send_bits_ = job.bits - (send_pos_ + 2) \div 4
          /\ send_bits_ >= 1

\* The mask of a job of 64 bits is back at the top bit after its high word,
\* with 32 bits left to send.
C19_Witness ==
    /\ state_ = SENDING /\ job.bits = MaxBits /\ JobTick(3)
    /\ mask_bit_ = {31} /\ send_pos_ = 4 * 32 /\ send_bits_ = 32

=============================================================================
